---- MODULE Spec2Model ----
(***************************************************************************)
(* llamanator: an authenticated HTTP gateway that renders a query through  *)
(* a named prompt template, forwards it to a generative-text backend and   *)
(* returns a filtered view of the backend's JSON answer (src/main.go).     *)
(*                                                                         *)
(* Go strings are sequences of one-character strings.  A JSON value is a   *)
(* record [t |-> type, s |-> text]; a Go map[string]interface{} is a       *)
(* function from its keys to JSON values, with a flag for the nil map.     *)
(***************************************************************************)
EXTENDS Integers, Sequences, FiniteSets, TLC

\* Number of request slots (goroutines net/http may run side by side).
NumReqs == 2

Reqs == 1..NumReqs

----------------------------------------------------------------------------
(* JSON values and Go maps *)

JStr(s) == [t |-> "string", s |-> s]

JNum == [t |-> "number", s |-> <<"5">>]

JTrue == [t |-> "bool", s |-> <<"t">>]

JFalse == [t |-> "bool", s |-> <<"f">>]

JNull == [t |-> "null", s |-> <<>>]

EmptyMap == [k \in {} |-> JNull]

\* A Go map value: nil is TRUE for the nil map (reads succeed, writes panic).
GoMap(m) == [nil |-> FALSE, m |-> m]

NilMap == [nil |-> TRUE, m |-> EmptyMap]

\* An assignment that adds a missing key but keeps a present one's value.
MapAssignKeep(m, k, v) == [x \in DOMAIN m \cup {k} |-> IF x \in DOMAIN m THEN m[x] ELSE v]

\* m[k] = v on a non-nil map: the key is added or its value overwritten.
MapAssign(m, k, v) == [x \in DOMAIN m \cup {k} |-> IF x = k THEN v ELSE m[x]]

\* v, ok := m[k].(string): ok only for a present string value.
IsString(m, k) == k \in DOMAIN m /\ m[k].t = "string"

----------------------------------------------------------------------------
(* Strings *)

Bearer == <<"B", "e", "a", "r", "e", "r", " ">>

\* A replacement that deletes the newlines instead of putting a space.
ReplaceNewlinesDrop(s) == SelectSeq(s, LAMBDA c : c # "\n")

\* strings.ReplaceAll(s, "\n", " ")
ReplaceNewlines(s) == [i \in 1..Len(s) |-> IF s[i] = "\n" THEN " " ELSE s[i]]

\* token[len(token)-1:] for a non-empty token
LastChar(s) == SubSeq(s, Len(s), Len(s))

----------------------------------------------------------------------------
(* Templates (html/template) *)

Text(s) == [k |-> "text", s |-> s]

Field(name) == [k |-> "field", s |-> <<name>>]

\* `{{.Query}} Default template response.`, the bootstrap template
DefaultTemplate == <<Field("Query"), Text(<<" ", "D", "e", "f", "a", "u", "l", "t", " ", "t", "e", "m", "p", "l", "a", "t", "e", " ", "r", "e", "s", "p", "o", "n", "s", "e", ".">>)>>

\* `{{.Query}} suffix`
SuffixTemplate == <<Field("Query"), Text(<<" ", "s", "u", "f", "f", "i", "x">>)>>

\* `Q: {{.Query}}{{.Foo}}`: parses, but TemplateData has no field Foo
BadTemplate == <<Text(<<"Q", ":", " ">>), Field("Query"), Field("Foo")>>

RECURSIVE Flatten(_)
Flatten(ss) == IF ss = <<>> THEN <<>> ELSE Head(ss) \o Flatten(Tail(ss))

\* html/template's htmlReplacementTable, applied to a value in HTML text context
HTMLEscapeChar(c) ==
    CASE c = "\"" -> <<"&", "#", "3", "4", ";">>
      [] c = "&" -> <<"&", "a", "m", "p", ";">>
      [] c = "'" -> <<"&", "#", "3", "9", ";">>
      [] c = "+" -> <<"&", "#", "4", "3", ";">>
      [] c = "<" -> <<"&", "l", "t", ";">>
      [] c = ">" -> <<"&", "g", "t", ";">>
      [] OTHER -> <<c>>

HTMLEscapeString(s) == Flatten([i \in 1..Len(s) |-> HTMLEscapeChar(s[i])])

\* tmpl.Execute fails on a field TemplateData does not have
ExecuteFails(tmpl) == \E n \in 1..Len(tmpl) : tmpl[n].k = "field" /\ tmpl[n].s # <<"Query">>

\* tmpl.Execute(&buf, data): the template's literal text holds no markup, so
\* every {{.Query}} stands in HTML text context and is HTML-escaped.
Execute(tmpl, data) ==
    Flatten([n \in 1..Len(tmpl) |->
        IF tmpl[n].k = "text" THEN tmpl[n].s ELSE HTMLEscapeString(data.Query)])

\* processTemplate: (string, error)
processTemplate(tmpl, data) ==
    IF ExecuteFails(tmpl) THEN [err |-> TRUE, out |-> <<>>]
    ELSE [err |-> FALSE, out |-> Execute(tmpl, data)]

----------------------------------------------------------------------------
(* Configuration and inputs *)

AuthToken == <<"s", "k">>

DefaultModel == <<"D">>

\* ollama_params as config.json may give it: absent (nil map), plain
\* parameters, or parameters that themselves name "prompt" and "model".
ParamChoices ==
    { NilMap,
      GoMap("stream" :> JFalse),
      GoMap(("stream" :> JFalse) @@ ("model" :> JStr(<<"S">>)) @@ ("prompt" :> JStr(<<"P">>))) }

\* response_fields
FieldChoices ==
    { <<>>, <<"eval_count">>, <<"response", "done">>, <<"x_extra", "nope">> }

Configs ==
    [ AuthToken : {AuthToken}, DefaultModel : {DefaultModel},
      OllamaParams : ParamChoices, ResponseFields : FieldChoices,
      StripNewline : BOOLEAN ]

\* The registry loadAndCacheTemplates can return: the bootstrap default
\* alone, or the templates of the files found.
Registries ==
    { "default" :> DefaultTemplate,
      ("suffix" :> SuffixTemplate) @@ ("bad" :> BadTemplate) }

\* Authorization headers a client may present (<<>>: header missing or empty).
Headers ==
    { <<>>, Bearer \o AuthToken, Bearer \o <<"s", "x">>, AuthToken, <<"k">>,
      Bearer \o AuthToken \o <<" ">> }

\* Query texts.
Queries == { <<"a">>, <<"<", "b">>, <<"x", "&", "\"">> }

\* Values of the request's "model" field, when present.
ModelValues == { JStr(<<>>), JStr(<<"X">>), JStr(<<"Y">>), JNum }

QueryValues == { JStr(q) : q \in Queries } \cup { JNum, JNull }

\* A body read from a connection: its JSON kind and, for an object, its map.
Body(kind, m) == [kind |-> kind, m |-> m]

Unread == Body("unread", EmptyMap)

RequestObjects ==
    { q @@ m : q \in {EmptyMap} \cup { "query" :> v : v \in QueryValues },
               m \in {EmptyMap} \cup { "model" :> v : v \in ModelValues } }

RequestBodies ==
    { Body("garbage", EmptyMap), Body("array", EmptyMap), Body("null", EmptyMap) }
        \cup { Body("object", m) : m \in RequestObjects }

\* json.NewDecoder(r.Body).Decode(&haRequest) into a map[string]interface{}:
\* fails on malformed JSON and on a JSON value that is no object; null
\* decodes to the nil map.
DecodeMapFails(body) == body.kind \in {"garbage", "array"}

DecodeMap(body) == IF body.kind = "object" THEN body.m ELSE EmptyMap

----------------------------------------------------------------------------
(* Backend answers and their projection *)

Opt(k, vals) == {EmptyMap} \cup { k :> v : v \in vals }

BackendObjects ==
    { r @@ d @@ e @@ x :
        r \in Opt("response", {JNull, JNum, JStr(<<"h", "\n", "t">>), JStr(<<"a">>)}),
        d \in Opt("done", {JTrue, JStr(<<"y">>)}),
        e \in Opt("eval_count", {JNum}),
        x \in Opt("x_extra", {JStr(<<"\n">>)}) }

BackendBodies ==
    { Body("garbage", EmptyMap), Body("array", EmptyMap), Body("null", EmptyMap) }
        \cup { Body("object", m) : m \in BackendObjects }

\* What client.Do and io.ReadAll can give: a transport failure, the expiry
\* of the context's deadline (which cancels the call), a body that cannot
\* be read to its end, or a body.
BackendOutcomes ==
    { [err |-> e, body |-> Unread] : e \in {"transport", "timeout", "read"} }
        \cup { [err |-> "none", body |-> b] : b \in BackendBodies }

\* The JSON type OllamaResponse declares for a key (keys it does not
\* declare are skipped by the decoder).
DeclaredType(k) ==
    CASE k = "response" -> "string"
      [] k = "done" -> "bool"
      [] k = "eval_count" -> "number"
      [] OTHER -> "any"

\* json.Unmarshal(body, &ollamaResponse): fails on malformed JSON, on a
\* value that is no object, and on a declared field of another type; null
\* leaves a field at its zero value.
DecodeTypedFails(body) ==
    \/ body.kind \in {"garbage", "array"}
    \/ /\ body.kind = "object"
       /\ \E k \in DOMAIN body.m :
            /\ DeclaredType(k) # "any"
            /\ body.m[k].t \notin {DeclaredType(k), "null"}

\* ollamaResponse.Response after a successful decode
TypedResponse(body) ==
    IF body.kind = "object" /\ IsString(body.m, "response")
    THEN body.m["response"].s ELSE <<>>

\* for _, field := range config.ResponseFields { ... }
RECURSIVE CopyFields(_, _, _)
CopyFields(out, m, fields) ==
    IF fields = <<>> THEN out
    ELSE CopyFields(IF Head(fields) \in DOMAIN m
                    THEN MapAssign(out, Head(fields), m[Head(fields)])
                    ELSE out,
                    m, Tail(fields))

\* if config.StripNewline { filteredResponse["response"] = ... }
Strip(cfg, out, response) ==
    IF cfg.StripNewline THEN MapAssign(out, "response", JStr(ReplaceNewlines(response)))
    ELSE out

\* A projection that copies every field of the backend's answer.
CopyAllFields(cfg, body) ==
    [k \in DOMAIN DecodeMap(body) \cup {"response"} |->
        IF k \in DOMAIN DecodeMap(body) THEN DecodeMap(body)[k]
        ELSE JStr(TypedResponse(body))]

\* Lines 232-249: "response", then the allowlisted fields the answer holds.
CopyListed(cfg, body) ==
    CopyFields("response" :> JStr(TypedResponse(body)), DecodeMap(body), cfg.ResponseFields)

\* A projection that also lets through what the shared parameters hold.
ProjectLeaky(cfg, body) ==
    Strip(cfg, CopyListed(cfg, body), TypedResponse(body)) @@ cfg.OllamaParams.m

\* Lines 231-254: the filtered response built from a decoded body.
Project(cfg, body) == Strip(cfg, CopyListed(cfg, body), TypedResponse(body))

----------------------------------------------------------------------------
(* State *)

VARIABLES
    config,          \* the *Config every handler shares; OllamaParams is a Go map
    loaded,          \* the configuration as loadConfig returned it
    templateConfig,  \* templateConfig.Templates: name -> parsed template
    req,             \* per request slot: the handler goroutine's locals and its response
    alive,           \* FALSE once the process has ended (fatal error, log.Fatalf)
    disk,            \* the ./templates directory
    boot             \* main's position at startup, and the routes it registered

vars == <<config, loaded, templateConfig, req, alive, disk, boot>>

NoOutcome == [err |-> "unset", body |-> Unread]

IdleReq ==
    [ pc |-> "idle",          \* idle, auth, handler, L187, L187w, L188, L188w,
                              \* L190, L190m, L211, L211w, done
      header |-> <<>>,        \* r.Header.Get("Authorization")
      route |-> "",           \* templateName the handler closure is bound to
      body |-> Unread,        \* r.Body once decoded
      query |-> <<>>, fullPrompt |-> <<>>, model |-> <<>>,
      seen |-> EmptyMap,      \* map entries json.Marshal has collected so far
      requestBody |-> EmptyMap,
      calls |-> 0,            \* client.Do calls made
      backend |-> NoOutcome,  \* what client.Do / io.ReadAll gave
      status |-> 0,           \* HTTP status sent (0: none, the connection was dropped)
      wrote |-> FALSE,        \* w.Write(responseBody) was called
      respBody |-> EmptyMap,  \* filteredResponse written
      log |-> <<>>,           \* part of the token logged on an authentication failure
      end |-> "" ]            \* replied, returned (handler returned without writing), panic

----------------------------------------------------------------------------
(* The templates directory and loadAndCacheTemplates *)

\* A directory entry's name, split as filepath.Ext splits it.
FileName(stem, ext) == [stem |-> stem, ext |-> ext]

\* A file: whether os.ReadFile succeeds on it (it fails on a directory or
\* without permission) and what it holds.
File(readable, text) == [readable |-> readable, text |-> text]

DefaultJson == FileName("default", ".json")

EmptyDir == [n \in {} |-> File(TRUE, "")]

\* template.New(name).Parse(text): "broken" stands for a text the parser
\* rejects, such as an unclosed action.
ParseFails(text) == text = "broken"

Parse(text) ==
    CASE text = "suffix" -> SuffixTemplate
      [] text = "bad" -> BadTemplate
      [] OTHER -> DefaultTemplate

OptFile(name, files) == {EmptyDir} \cup { name :> f : f \in files }

\* What ./templates may hold when the process starts.
DirChoices ==
    { b @@ d @@ n @@ s :
        b \in OptFile(FileName("bad", ".json"), {File(TRUE, "bad")}),
        d \in OptFile(DefaultJson, {File(TRUE, "broken"), File(TRUE, "default")}),
        n \in OptFile(FileName("notes", ".txt"), {File(TRUE, "suffix")}),
        s \in OptFile(FileName("suffix", ".json"), {File(TRUE, "suffix"), File(FALSE, "suffix")}) }

\* The directory: whether it exists, whether os.MkdirAll, os.ReadDir and
\* os.WriteFile succeed on it, and its entries.
Disks ==
    { [exists |-> TRUE, canCreate |-> TRUE, canList |-> l, canWrite |-> w, files |-> f] :
        l \in BOOLEAN, w \in BOOLEAN, f \in DirChoices }
    \cup
    { [exists |-> FALSE, canCreate |-> c, canList |-> TRUE, canWrite |-> w, files |-> EmptyDir] :
        c \in BOOLEAN, w \in BOOLEAN }

\* os.ReadDir returns the entries sorted by filename.
SortedNames ==
    << FileName("bad", ".json"), DefaultJson, FileName("notes", ".txt"),
       FileName("suffix", ".json") >>

Listing(d) == SelectSeq(SortedNames, LAMBDA n : n \in DOMAIN d.files)

\* filepath.Ext(templateName) == ".json"
Recognised(name) == name.ext = ".json"

\* Lines 92-108, one directory entry: a recognised file that reads and
\* parses is stored under its name without the extension; any other is
\* skipped (a failure is logged).
Loaded(tc, name, f) ==
    IF Recognised(name) /\ f.readable /\ ~ParseFails(f.text)
    THEN MapAssign(tc, name.stem, Parse(f.text))
    ELSE tc

\* Lines 120-123: os.WriteFile of default.json; a failure is only logged.
WriteDefault(d) ==
    IF d.canWrite
    THEN [d EXCEPT !.files = MapAssign(@, DefaultJson, File(TRUE, "default"))]
    ELSE d

\* Routes with one more than the registry holds.
RoutesAndMore(tc) == DOMAIN tc \cup {"ghost"}

\* Lines 279-282: one route per name in the registry.
Routes(tc) == DOMAIN tc

\* main's position when the process starts on directory d, which is
\* remembered as it was then.
Booting(d) == [pc |-> "stat", todo |-> <<>>, routes |-> {}, start |-> d]

\* The directory a registry was loaded from.
DiskHolding(tc) ==
    [exists |-> TRUE, canCreate |-> TRUE, canList |-> TRUE, canWrite |-> TRUE,
     files |-> [n \in { FileName(k, ".json") : k \in DOMAIN tc } |-> File(TRUE, n.stem)]]

\* The state once main has loaded config.json and the templates and
\* registered the routes.
Started(cfgs) ==
    /\ config \in cfgs
    /\ loaded = config
    /\ templateConfig \in Registries
    /\ req = [i \in Reqs |-> IdleReq]
    /\ alive = TRUE
    /\ disk = DiskHolding(templateConfig)
    /\ boot = [Booting(disk) EXCEPT !.pc = "serving", !.routes = Routes(templateConfig)]

Init == Started(Configs)

Finish(r, end, status) == [r EXCEPT !.pc = "done", !.end = end, !.status = status]

----------------------------------------------------------------------------
(* authenticate *)

\* A comparison that accepts any header starting with the expected one.
TokenHasPrefix(cfg, token) ==
    /\ Len(token) >= Len(Bearer \o cfg.AuthToken)
    /\ SubSeq(token, 1, Len(Bearer \o cfg.AuthToken)) = Bearer \o cfg.AuthToken

\* token != "Bearer "+config.AuthToken, negated
TokenMatches(cfg, token) == token = Bearer \o cfg.AuthToken

\* A connection is accepted and its request routed to a registered handler.
Arrive(i) ==
    /\ alive
    /\ boot.pc = "serving"
    /\ req[i].pc = "idle"
    /\ \E h \in Headers, name \in boot.routes :
         req' = [req EXCEPT ![i] = [IdleReq EXCEPT !.pc = "auth", !.header = h, !.route = name]]
    /\ UNCHANGED <<config, loaded, templateConfig, alive, disk, boot>>

\* Lines 130-139. With an empty token, token[len(token)-1:] is evaluated for
\* the log call before http.Error runs: the slice expression panics, net/http
\* recovers the panic and drops the connection.
Authenticated(cfg, r) ==
    IF ~TokenMatches(cfg, r.header)
    THEN IF Len(r.header) = 0
         THEN Finish(r, "panic", 0)
         ELSE [Finish(r, "replied", 401) EXCEPT !.log = LastChar(r.header)]
    ELSE [r EXCEPT !.pc = "handler"]

Authenticate(i) ==
    /\ alive
    /\ req[i].pc = "auth"
    /\ req' = [req EXCEPT ![i] = Authenticated(config, req[i])]
    /\ UNCHANGED <<config, loaded, templateConfig, alive, disk, boot>>

----------------------------------------------------------------------------
(* templateHandler, lines 152-183: decode, query, prompt, model *)

\* A selection that falls back to the "model" left in the shared parameters.
SelectModelCarry(cfg, m) ==
    IF IsString(m, "model") /\ m["model"].s # <<>> THEN m["model"].s
    ELSE IF IsString(cfg.OllamaParams.m, "model") THEN cfg.OllamaParams.m["model"].s
    ELSE cfg.DefaultModel

\* Lines 180-183.
SelectModel(cfg, m) ==
    IF IsString(m, "model") /\ m["model"].s # <<>> THEN m["model"].s
    ELSE cfg.DefaultModel

\* Lines 166-177.
Prompt(tc, name, query) ==
    IF name \in DOMAIN tc
    THEN processTemplate(tc[name], [Query |-> query])
    ELSE [err |-> FALSE, out |-> query]

\* A check of the key's presence alone.
QueryAny(m) == "query" \in DOMAIN m

\* query, ok := haRequest["query"].(string)
QueryOk(m) == IsString(m, "query")

Prepared(cfg, tc, r, b) ==
    LET rb == [r EXCEPT !.body = b]
        m == DecodeMap(b)
    IN  IF DecodeMapFails(b) THEN Finish(rb, "replied", 400)
        ELSE IF ~QueryOk(m) THEN Finish(rb, "replied", 400)
        ELSE LET p == Prompt(tc, r.route, m["query"].s)
             IN  IF p.err THEN [Finish(rb, "replied", 500) EXCEPT !.query = m["query"].s]
                 ELSE [rb EXCEPT !.pc = "L187", !.query = m["query"].s,
                                 !.fullPrompt = p.out, !.model = SelectModel(cfg, m)]

\* The handler reads one of `bodies` from the connection.
Prepare(i, bodies) ==
    /\ alive
    /\ req[i].pc = "handler"
    /\ \E b \in bodies :
         req' = [req EXCEPT ![i] = Prepared(config, templateConfig, req[i], b)]
    /\ UNCHANGED <<config, loaded, templateConfig, alive, disk, boot>>

----------------------------------------------------------------------------
(* templateHandler, lines 186-194: the backend payload *)

\* Go maps are not safe for concurrent use.  An assignment marks the map as
\* being written from its start to its end; a second assignment or an
\* iteration that runs meanwhile is a data race.  The runtime's check is best
\* effort: it either throws the unrecoverable "concurrent map writes" /
\* "concurrent map iteration and map write", which ends the process, or
\* misses the race and the operation goes on.
MidWrite(i) == \E j \in Reqs \ {i} : req[j].pc \in {"L187w", "L188w"}

RaceOutcomes(i) == IF MidWrite(i) THEN {"fatal", "missed"} ELSE {"missed"}

AssignKey(r) == IF r.pc \in {"L187", "L187w"} THEN "prompt" ELSE "model"

AssignValue(r) == IF r.pc \in {"L187", "L187w"} THEN JStr(r.fullPrompt) ELSE JStr(r.model)

\* Lines 186-188, start of ollamaRequest[k] = v.  ollamaRequest is
\* config.OllamaParams itself (a map assignment copies the reference);
\* assigning into the nil map panics and net/http recovers the panic.
AssignBegin(i) ==
    /\ alive
    /\ req[i].pc \in {"L187", "L188"}
    /\ \E o \in RaceOutcomes(i) :
         IF config.OllamaParams.nil
         THEN /\ req' = [req EXCEPT ![i] = Finish(@, "panic", 0)]
              /\ alive' = alive
         ELSE IF o = "fatal"
         THEN /\ alive' = FALSE
              /\ req' = req
         ELSE /\ req' = [req EXCEPT ![i].pc = IF @ = "L187" THEN "L187w" ELSE "L188w"]
              /\ alive' = alive
    /\ UNCHANGED <<config, loaded, templateConfig, disk, boot>>

\* The map a fresh copy of the parameters would be (what the handler does not make).
WriteTarget(cfg) == cfg.OllamaParams.m

\* End of ollamaRequest[k] = v: the entry is in the shared map.
AssignEnd(i) ==
    /\ alive
    /\ req[i].pc \in {"L187w", "L188w"}
    /\ config' = [config EXCEPT !.OllamaParams.m =
                     MapAssign(WriteTarget(config), AssignKey(req[i]), AssignValue(req[i]))]
    /\ req' = [req EXCEPT ![i].pc = IF @ = "L187w" THEN "L188" ELSE "L190"]
    /\ UNCHANGED <<loaded, templateConfig, alive, disk, boot>>

\* Line 190, json.Marshal(ollamaRequest): the encoder first walks the map
\* collecting its entries (in Go's random iteration order), then writes them
\* sorted by key.  The walk is not atomic: here it collects "prompt" or
\* "model" first and the remaining entries in a second step.
MarshalBegin(i) ==
    /\ alive
    /\ req[i].pc = "L190"
    /\ \E o \in RaceOutcomes(i), k \in {"prompt", "model"} :
         IF o = "fatal"
         THEN /\ alive' = FALSE
              /\ req' = req
         ELSE /\ req' = [req EXCEPT ![i].pc = "L190m",
                                    ![i].seen = k :> config.OllamaParams.m[k]]
              /\ alive' = alive
    /\ UNCHANGED <<config, loaded, templateConfig, disk, boot>>

Collected(seen, m) == [k \in DOMAIN m |-> IF k \in DOMAIN seen THEN seen[k] ELSE m[k]]

MarshalEnd(i) ==
    /\ alive
    /\ req[i].pc = "L190m"
    /\ \E o \in RaceOutcomes(i) :
         IF o = "fatal"
         THEN /\ alive' = FALSE
              /\ req' = req
         ELSE /\ req' = [req EXCEPT ![i].pc = "L211",
                                    ![i].requestBody = Collected(req[i].seen, config.OllamaParams.m)]
              /\ alive' = alive
    /\ UNCHANGED <<config, loaded, templateConfig, disk, boot>>

----------------------------------------------------------------------------
(* templateHandler, lines 196-264: the backend call and the response *)

\* Lines 197-211: client.Do(req) is called with the marshalled payload.
Send(i) ==
    /\ alive
    /\ req[i].pc = "L211"
    /\ req' = [req EXCEPT ![i].pc = "L211w", ![i].calls = @ + 1]
    /\ UNCHANGED <<config, loaded, templateConfig, alive, disk, boot>>

\* A handler that calls the backend again after a failed call.
RespondedRetry(cfg, r, o) ==
    IF o.err # "none" THEN [r EXCEPT !.pc = "L211", !.backend = o]
    ELSE [Finish([r EXCEPT !.backend = o], "replied", 200) EXCEPT
              !.wrote = TRUE, !.respBody = Project(cfg, o.body)]

\* A handler that starts its reply before it knows the backend call failed.
RespondedPartial(cfg, r, o) ==
    IF o.err # "none"
    THEN [Finish([r EXCEPT !.backend = o], "returned", 200) EXCEPT !.wrote = TRUE]
    ELSE IF DecodeTypedFails(o.body) \/ DecodeMapFails(o.body)
    THEN Finish([r EXCEPT !.backend = o], "returned", 200)
    ELSE [Finish([r EXCEPT !.backend = o], "replied", 200) EXCEPT
              !.wrote = TRUE, !.respBody = Project(cfg, o.body)]

\* Lines 212-264.  Every failure is logged and the handler returns without
\* touching the ResponseWriter; net/http then sends 200 with an empty body.
Responded(cfg, r, o) ==
    LET ro == [r EXCEPT !.backend = o]
    IN  IF o.err # "none" THEN Finish(ro, "returned", 200)
        ELSE IF DecodeTypedFails(o.body) THEN Finish(ro, "returned", 200)
        ELSE IF DecodeMapFails(o.body) THEN Finish(ro, "returned", 200)
        ELSE [Finish(ro, "replied", 200) EXCEPT !.wrote = TRUE,
                                                !.respBody = Project(cfg, o.body)]

\* client.Do returns: the backend answered, failed, or the context's
\* deadline (config.RequestTimeout) expired.
BackendReply(i, outcomes) ==
    /\ alive
    /\ req[i].pc = "L211w"
    /\ \E o \in outcomes :
         req' = [req EXCEPT ![i] = Responded(config, req[i], o)]
    /\ UNCHANGED <<config, loaded, templateConfig, alive, disk, boot>>

\* The exchange is over; the slot serves the next connection.
Recycle(i) ==
    /\ alive
    /\ req[i].pc = "done"
    /\ req' = [req EXCEPT ![i] = IdleReq]
    /\ UNCHANGED <<config, loaded, templateConfig, alive, disk, boot>>

\* What a request does once accepted, reading its body from `bodies` and
\* the backend's answer from `outcomes`.
Step(i, bodies, outcomes) ==
    \/ Authenticate(i)
    \/ Prepare(i, bodies)
    \/ AssignBegin(i)
    \/ AssignEnd(i)
    \/ MarshalBegin(i)
    \/ MarshalEnd(i)
    \/ Send(i)
    \/ BackendReply(i, outcomes)
    \/ Recycle(i)

\* One request at a time: a connection is accepted only when no other
\* exchange is under way.
ArriveAlone(i) ==
    /\ \A j \in Reqs : req[j].pc = "idle"
    /\ Arrive(i)

NextSeq == \E i \in Reqs : ArriveAlone(i) \/ Step(i, RequestBodies, BackendOutcomes)

\* Sequential service, over every configuration, body and backend answer.
SpecSeq == Init /\ [][NextSeq]_vars

\* The inputs of the concurrent runs: enough for two requests to differ in
\* query and model and to fail or succeed at each stage.
RaceConfigs ==
    { c \in Configs : c.ResponseFields = <<"eval_count">> /\ c.StripNewline }

RaceBodies ==
    { Body("garbage", EmptyMap),
      Body("object", "query" :> JStr(<<"a">>)),
      Body("object", ("query" :> JStr(<<"a">>)) @@ ("model" :> JStr(<<"X">>))),
      Body("object", ("query" :> JStr(<<"<", "b">>)) @@ ("model" :> JStr(<<"Y">>))) }

RaceOutcomeSet ==
    { [err |-> "transport", body |-> Unread],
      [err |-> "timeout", body |-> Unread],
      [err |-> "none", body |-> Body("garbage", EmptyMap)],
      [err |-> "none", body |-> Body("object", ("response" :> JStr(<<"h", "\n", "t">>)) @@ ("eval_count" :> JNum))] }

InitRace == Started(RaceConfigs)

\* net/http serves every connection on its own goroutine.
Next == \E i \in Reqs : Arrive(i) \/ Step(i, RaceBodies, RaceOutcomeSet)

\* Concurrent service.
Spec == InitRace /\ [][Next]_vars

\* Concurrent service under Go's scheduler: a goroutine that can take a
\* step eventually takes it, and client.Do returns at the latest when the
\* deadline expires.  No client is obliged to send a request.
SpecFair == Spec /\ \A i \in Reqs : WF_vars(Step(i, RaceBodies, RaceOutcomeSet))

----------------------------------------------------------------------------
(* Startup: main, lines 268-287 *)

\* log.Fatalf: the process exits.
Fatal ==
    /\ alive' = FALSE
    /\ boot' = [boot EXCEPT !.pc = "fatal"]
    /\ UNCHANGED <<config, loaded, templateConfig, req, disk>>

\* Lines 79-84: a missing directory is created; a failure is returned to
\* main, which ends the process.
StatDir ==
    /\ alive
    /\ boot.pc = "stat"
    /\ IF disk.exists \/ disk.canCreate
       THEN /\ disk' = [disk EXCEPT !.exists = TRUE]
            /\ boot' = [boot EXCEPT !.pc = "readdir"]
            /\ UNCHANGED <<config, loaded, templateConfig, req, alive>>
       ELSE Fatal

\* Lines 86-89.
ReadDir ==
    /\ alive
    /\ boot.pc = "readdir"
    /\ IF disk.canList
       THEN /\ boot' = [boot EXCEPT !.pc = "loop", !.todo = Listing(disk)]
            /\ UNCHANGED <<config, loaded, templateConfig, req, alive, disk>>
       ELSE Fatal

\* Lines 91-109, one iteration.
LoadFile ==
    /\ alive
    /\ boot.pc = "loop"
    /\ boot.todo # <<>>
    /\ templateConfig' = Loaded(templateConfig, Head(boot.todo), disk.files[Head(boot.todo)])
    /\ boot' = [boot EXCEPT !.todo = Tail(@)]
    /\ UNCHANGED <<config, loaded, req, alive, disk>>

\* Lines 111-126: with no template loaded, the default one is registered
\* and written to default.json.
Bootstrap ==
    /\ alive
    /\ boot.pc = "loop"
    /\ boot.todo = <<>>
    /\ IF DOMAIN templateConfig = {}
       THEN /\ templateConfig' = MapAssign(templateConfig, "default", DefaultTemplate)
            /\ disk' = WriteDefault(disk)
       ELSE UNCHANGED <<templateConfig, disk>>
    /\ boot' = [boot EXCEPT !.pc = "routes"]
    /\ UNCHANGED <<config, loaded, req, alive>>

\* Lines 279-285: the routes are registered and the server listens.
RegisterRoutes ==
    /\ alive
    /\ boot.pc = "routes"
    /\ boot' = [boot EXCEPT !.pc = "serving", !.routes = Routes(templateConfig)]
    /\ UNCHANGED <<config, loaded, templateConfig, req, alive, disk>>

\* The process just started: config.json is loaded, nothing else is.
InitLoad ==
    /\ config \in RaceConfigs
    /\ loaded = config
    /\ templateConfig = [k \in {} |-> DefaultTemplate]
    /\ req = [i \in Reqs |-> IdleReq]
    /\ alive = TRUE
    /\ disk \in Disks
    /\ boot = Booting(disk)

NextLoad == StatDir \/ ReadDir \/ LoadFile \/ Bootstrap \/ RegisterRoutes

\* Startup, over every state of the templates directory.
SpecLoad == InitLoad /\ [][NextLoad]_vars

----------------------------------------------------------------------------
(* Claims *)

Expected == Bearer \o loaded.AuthToken

\* The handler has built its prompt and model and not yet finished.
Building(r) == r.pc \in {"L187", "L187w", "L188", "L188w", "L190", "L190m", "L211", "L211w"}

\* C1: a request whose Authorization header is not exactly "Bearer " + the
\* configured token never reaches the wrapped handler: it only waits for the
\* authenticator or is finished, its body is never read, it makes no backend
\* call, and no step it takes changes the shared configuration.
C1_UnauthorizedNeverHandled ==
    [][\A i \in Reqs :
         (req'[i].pc # "idle" /\ req'[i].header # Expected)
            => /\ req'[i].pc \in {"auth", "done"}
               /\ req'[i].body = Unread
               /\ req'[i].calls = 0
               /\ req'[i].requestBody = EmptyMap
               /\ (req'[i] # req[i] => config' = config)]_vars

\* A rejected request: a wrong, non-empty header answered with 401.
C1_Witness ==
    \E i \in Reqs :
        /\ req[i].pc = "done"
        /\ req[i].header = Expected \o <<" ">>
        /\ req[i].status = 401
        /\ req[i].body = Unread

\* C2: a request with an empty or missing Authorization header ends with
\* HTTP 401, the authenticator having completed normally.
C2_EmptyHeaderGets401 ==
    \A i \in Reqs :
        (req[i].pc = "done" /\ req[i].header = <<>>)
            => (req[i].status = 401 /\ req[i].end = "replied")

BadBody(b) ==
    \/ b.kind \in {"garbage", "array", "null"}
    \/ /\ b.kind = "object"
       /\ ("query" \notin DOMAIN b.m \/ b.m["query"].t # "string")

\* C3: an authenticated request whose body is not a JSON object, or whose
\* "query" is missing or not a string, is answered with HTTP 400, makes no
\* backend call, and the step that reads it leaves the shared configuration
\* as it was.
C3_BadBodyGets400 ==
    [][\A i \in Reqs :
         (req'[i].body # Unread /\ BadBody(req'[i].body))
            => /\ req'[i].pc = "done"
               /\ req'[i].status = 400
               /\ req'[i].end = "replied"
               /\ req'[i].calls = 0
               /\ (req'[i] # req[i] => config' = config)]_vars

\* A request with a numeric "query" that was answered 400.
C3_Witness ==
    \E i \in Reqs :
        /\ req[i].pc = "done"
        /\ req[i].body.kind = "object"
        /\ "query" \in DOMAIN req[i].body.m
        /\ req[i].body.m["query"] = JNum
        /\ req[i].status = 400

\* The model a request asks for: its "model" when that is a non-empty
\* string, the configured default otherwise.
WantedModel(b) ==
    IF /\ "model" \in DOMAIN b.m
       /\ b.m["model"].t = "string"
       /\ Len(b.m["model"].s) > 0
    THEN b.m["model"].s
    ELSE loaded.DefaultModel

\* C4: in sequential service, the "model" of the payload sent to the backend
\* is the request's own "model" when that is a non-empty string and the
\* configured default otherwise, whatever earlier requests asked for.
C4_ModelSelection ==
    \A i \in Reqs :
        req[i].calls > 0
            => /\ "model" \in DOMAIN req[i].requestBody
               /\ req[i].requestBody["model"] = JStr(WantedModel(req[i].body))

\* A request without a usable "model" was sent with the default model although
\* the parameters loaded at startup name another one.
C4_Witness ==
    \E i \in Reqs :
        /\ req[i].calls > 0
        /\ "model" \in DOMAIN req[i].body.m
        /\ req[i].body.m["model"] = JStr(<<>>)
        /\ "model" \in DOMAIN loaded.OllamaParams.m
        /\ req[i].requestBody["model"] = JStr(DefaultModel)

SuppliesModel(r) ==
    /\ r.body.kind = "object"
    /\ "model" \in DOMAIN r.body.m
    /\ r.body.m["model"].t = "string"
    /\ Len(r.body.m["model"].s) > 0

\* C5: when the requests in flight each supply a different "model", the
\* payload a request sends to the backend holds its own model and its own
\* prompt.
C5_OwnPayload ==
    \A i \in Reqs :
        ( /\ req[i].calls > 0
          /\ SuppliesModel(req[i])
          /\ \A j \in Reqs \ {i} :
                /\ SuppliesModel(req[j])
                /\ req[j].body.m["model"] # req[i].body.m["model"] )
            => /\ req[i].requestBody["model"] = req[i].body.m["model"]
               /\ req[i].requestBody["prompt"] = JStr(req[i].fullPrompt)

\* C6: whatever the requests do, and however their steps interleave, the
\* server process stays alive.
C6_ServerSurvives == alive

\* C7: the configuration, its static parameter mapping included, stays as it
\* was loaded at startup.
C7_ConfigReadOnly == config = loaded

\* C8: in sequential service, the payload sent to the backend is the static
\* parameter mapping loaded at startup with "prompt" set to the request's
\* prompt and "model" to its selected model: the other static keys keep
\* their configured values and no other key is added.
C8_ParameterMerge ==
    \A i \in Reqs :
        req[i].calls > 0
            => req[i].requestBody =
                  [k \in DOMAIN loaded.OllamaParams.m \cup {"prompt", "model"} |->
                      IF k = "prompt" THEN JStr(req[i].fullPrompt)
                      ELSE IF k = "model" THEN JStr(req[i].model)
                      ELSE loaded.OllamaParams.m[k]]

\* A payload sent under static parameters that name "prompt" and "model"
\* themselves: both were overwritten and "stream" passed through.
C8_Witness ==
    \E i \in Reqs :
        /\ req[i].calls > 0
        /\ DOMAIN loaded.OllamaParams.m = {"stream", "model", "prompt"}
        /\ req[i].requestBody["prompt"] # loaded.OllamaParams.m["prompt"]
        /\ req[i].requestBody["model"] = JStr(<<"X">>)
        /\ req[i].requestBody["stream"] = JFalse

\* C9: with the template `{{.Query}} suffix`, the prompt is the query text
\* followed by " suffix", whatever characters the query holds.
C9_QueryUnaltered ==
    \A i \in Reqs :
        ( /\ Building(req[i])
          /\ req[i].route \in DOMAIN templateConfig
          /\ templateConfig[req[i].route] = SuffixTemplate )
            => req[i].fullPrompt = req[i].query \o <<" ", "s", "u", "f", "f", "i", "x">>

Allowlisted(r) ==
    { loaded.ResponseFields[n] : n \in 1..Len(loaded.ResponseFields) }
        \cap DOMAIN r.backend.body.m

KeysAsClaimed(r) == DOMAIN r.respBody = {"response"} \cup Allowlisted(r)

\* C10 as stated: the filtered output's keys are "response" and the
\* allowlisted names the backend's answer holds, and every copied allowlisted
\* field has the backend's value.
C10_ProjectionVerbatim ==
    \A i \in Reqs :
        req[i].wrote
            => /\ KeysAsClaimed(req[i])
               /\ \A f \in Allowlisted(req[i]) :
                     req[i].respBody[f] = req[i].backend.body.m[f]

\* C10, amended: the same, except that an allowlisted "response" holds the
\* newline-stripped response string when strip_newline is enabled.
C10_Projection ==
    \A i \in Reqs :
        req[i].wrote
            => /\ KeysAsClaimed(req[i])
               /\ \A f \in Allowlisted(req[i]) :
                     IF f = "response" /\ loaded.StripNewline
                     THEN /\ req[i].respBody[f].t = "string"
                          /\ Len(req[i].respBody[f].s) = Len(TypedResponse(req[i].backend.body))
                          /\ \A n \in 1..Len(req[i].respBody[f].s) :
                                req[i].respBody[f].s[n] =
                                    IF req[i].backend.body.m[f].s[n] = "\n" THEN " "
                                    ELSE req[i].backend.body.m[f].s[n]
                     ELSE req[i].respBody[f] = req[i].backend.body.m[f]

\* An answer with allowlisted "x_extra", non-allowlisted "done" and no
\* "nope" was projected to "response" and "x_extra" alone.
C10_Witness ==
    \E i \in Reqs :
        /\ req[i].wrote
        /\ loaded.ResponseFields = <<"x_extra", "nope">>
        /\ {"x_extra", "done", "response"} \subseteq DOMAIN req[i].backend.body.m
        /\ DOMAIN req[i].respBody = {"response", "x_extra"}
        /\ req[i].respBody["x_extra"] = JStr(<<"\n">>)

\* The backend's answer of a finished request holds a string "response".
HasResponseString(r) ==
    /\ r.backend.body.kind = "object"
    /\ "response" \in DOMAIN r.backend.body.m
    /\ r.backend.body.m["response"].t = "string"

\* C11: with strip_newline enabled the output's "response" is the backend's
\* response string with every newline replaced by one space; with it
\* disabled it is that string unchanged; every other copied field has the
\* backend's value, newlines included, whatever the allowlist names.
C11_StripNewline ==
    \A i \in Reqs :
        (req[i].wrote /\ HasResponseString(req[i]))
            => LET s == req[i].backend.body.m["response"].s
                   out == req[i].respBody
               IN  /\ out["response"].t = "string"
                   /\ Len(out["response"].s) = Len(s)
                   /\ \A n \in 1..Len(s) :
                         out["response"].s[n] =
                             IF loaded.StripNewline /\ s[n] = "\n" THEN " " ELSE s[n]
                   /\ \A f \in DOMAIN out \ {"response"} :
                         out[f] = req[i].backend.body.m[f]

\* With strip_newline on, "h\nt" went out as "h t" while the allowlisted
\* "x_extra" kept its newline.
C11_Witness ==
    \E i \in Reqs :
        /\ req[i].wrote
        /\ loaded.StripNewline
        /\ HasResponseString(req[i])
        /\ req[i].backend.body.m["response"].s = <<"h", "\n", "t">>
        /\ req[i].respBody["response"].s = <<"h", " ", "t">>
        /\ "x_extra" \in DOMAIN req[i].respBody
        /\ req[i].respBody["x_extra"].s = <<"\n">>

\* C12: a request makes at most one backend call, whatever that call's
\* outcome: a finished request that called the backend called it once.
C12_SingleAttempt ==
    \A i \in Reqs :
        /\ req[i].calls <= 1
        /\ (req[i].backend # NoOutcome => (req[i].calls = 1 /\ req[i].pc = "done"))

\* A request whose only call failed in transport and which is finished.
C12_Witness ==
    \E i \in Reqs :
        /\ req[i].pc = "done"
        /\ req[i].backend.err = "transport"
        /\ req[i].calls = 1

\* The request was authenticated, its body valid, and its handler ended
\* without the filtered response: rendering, the backend call or decoding
\* the answer failed.
FailedInternally(r) ==
    /\ r.pc = "done"
    /\ r.header = Expected
    /\ r.body # Unread
    /\ ~BadBody(r.body)
    /\ r.end \in {"replied", "returned"}
    /\ ~r.wrote

\* C13: an authenticated, valid request that fails internally is answered
\* with HTTP 500.
C13_InternalFailureGets500 ==
    \A i \in Reqs : FailedInternally(req[i]) => req[i].status = 500

InFlight(r) == r.pc \notin {"idle", "done"}

\* C14: while a request waits for a backend call that may run into its
\* timeout, every request in flight, the waiting one included, eventually
\* reaches its own end: the timeout ends only its own request and blocks or
\* cancels no other.
C14_TimeoutIsolated ==
    \A i, j \in Reqs :
        (req[i].pc = "L211w" /\ InFlight(req[j])) ~> (req[j].pc = "done")

\* Directory d holds no file that is recognised, reads and parses.
NoneParses(d) ==
    \A n \in DOMAIN d.files :
        ~(Recognised(n) /\ d.files[n].readable /\ ~ParseFails(d.files[n].text))

LoadingSucceeded == boot.pc \in {"routes", "serving"}

\* C15: after template loading succeeds the registry is never empty, and
\* when no file of the directory parsed, the registry holds exactly the
\* entry "default" and default.json, holding the default template, is in
\* the directory.
C15_DefaultPersisted ==
    LoadingSucceeded =>
        /\ DOMAIN templateConfig # {}
        /\ NoneParses(boot.start) =>
             /\ DOMAIN templateConfig = {"default"}
             /\ templateConfig["default"] = DefaultTemplate
             /\ DefaultJson \in DOMAIN disk.files
             /\ disk.files[DefaultJson] = File(TRUE, "default")

\* The token as line 133 prints it: the mask, then the logged part.
LogText(r) == <<"*", "*", "*", "*">> \o r.log

\* Sequence part occurs in sequence text.
Contains(text, part) ==
    \E k \in 0..(Len(text) - Len(part)) :
        \A n \in 1..Len(part) : text[k + n] = part[n]

\* C18: the text logged for a rejected Authorization header never contains
\* the whole header value, whatever its length.
C18_LogHidesToken ==
    \A i \in Reqs :
        req[i].status = 401 => ~Contains(LogText(req[i]), req[i].header)

\* The template rendered on the request's query.
Rendered(r) == processTemplate(templateConfig[r.route], [Query |-> r.query]).out

\* C19: the routes are those of the registry loaded at startup, which is
\* unchanged since; every request on a route finds its template, the prompt
\* it builds is the rendered template, never the raw-query fallback, and
\* that prompt is the one in the payload sent to the backend.
C19_TemplateAlwaysFound ==
    /\ templateConfig \in Registries
    /\ boot.routes = DOMAIN templateConfig
    /\ \A i \in Reqs :
         req[i].pc # "idle" =>
            /\ req[i].route \in DOMAIN templateConfig
            /\ Building(req[i]) => req[i].fullPrompt = Rendered(req[i])
            /\ req[i].pc \in {"L211", "L211w"} =>
                 req[i].requestBody["prompt"] = JStr(Rendered(req[i]))

C19_Witness ==
    \E i \in Reqs :
        /\ req[i].pc = "L211w"
        /\ req[i].route = "suffix"
        /\ req[i].query = <<"<", "b">>
        /\ req[i].fullPrompt # req[i].query
        /\ req[i].requestBody["prompt"] = JStr(req[i].fullPrompt)

\* The backend call succeeded and its body decoded both ways.
BackendUsable(r) ==
    /\ r.backend.err = "none"
    /\ ~DecodeTypedFails(r.backend.body)
    /\ ~DecodeMapFails(r.backend.body)

\* C17: w.Write(responseBody) happens only once the request's backend call
\* has succeeded and its body has decoded as OllamaResponse and as a map;
\* a request whose call failed, timed out or whose body did not decode
\* ends with nothing written to its response body.
C17_WriteOnlyAfterSuccess ==
    \A i \in Reqs :
        /\ req[i].wrote =>
             /\ req[i].pc = "done"
             /\ req[i].calls = 1
             /\ BackendUsable(req[i])
        /\ (req[i].backend # NoOutcome /\ ~BackendUsable(req[i])) =>
             /\ req[i].pc = "done"
             /\ req[i].end = "returned"
             /\ ~req[i].wrote
             /\ req[i].respBody = EmptyMap
        /\ (req[i].calls = 1 /\ req[i].pc # "done") =>
             (~req[i].wrote /\ req[i].respBody = EmptyMap)

C17_Witness ==
    \E i \in Reqs :
        /\ req[i].pc = "done"
        /\ req[i].calls = 1
        /\ req[i].backend.err = "none"
        /\ DecodeTypedFails(req[i].backend.body)
        /\ ~req[i].wrote
        /\ req[i].end = "returned"

====
